---- MODULE Spec2Model ----
(***************************************************************************)
(* anymail/backends/base.py: the send loop of AnymailBaseBackend, the      *)
(* session lifecycle of AnymailRequestsBackend and the attribute table     *)
(* dispatch of BasePayload.                                                *)
(***************************************************************************)
EXTENDS Integers, Sequences, FiniteSets, TLC

\* ------------------------------------------------------------------------
\* Bounds of the model
\* ------------------------------------------------------------------------

\* longest email_messages list handed to send_messages
MaxMsgs == 2

\* how many of the normalized statuses the ESP answers with
NumStatuses == 2

\* how many open() and close() calls the caller makes between two
\* send_messages calls
MaxCalls == 3

\* ------------------------------------------------------------------------
\* Values: utils.UNSET, and a present value v as the one-element tuple <<v>>
\* ------------------------------------------------------------------------

UNSET == <<>>

Val(v) == <<v>>

IsUnset(x) == Len(x) = 0

\* utils.last(default_value, value): the caller value if present, else the
\* default, else absent
last(default_value, value) ==
    IF ~IsUnset(value) THEN value ELSE default_value

\* utils.combine(default_value, value): default collection followed by the
\* caller collection; one side absent gives the other; both absent, absent
combine(default_value, value) ==
    IF IsUnset(default_value) THEN value
    ELSE IF IsUnset(value) THEN default_value
    ELSE Val(default_value[1] \o value[1])

\* utils.ParsedEmail(address, encoding)
ParsedEmail(address, encoding) ==
    [type |-> "ParsedEmail", address |-> address, encoding |-> encoding]

\* utils.Attachment(attachment, str_encoding)
Attachment(attachment, str_encoding) ==
    [type |-> "Attachment", attachment |-> attachment, encoding |-> str_encoding]

\* settings.DEFAULT_CHARSET
DEFAULT_CHARSET == "utf-8"

\* ------------------------------------------------------------------------
\* BasePayload: the attribute tables (attr, combiner, converter)
\* ------------------------------------------------------------------------

base_message_attrs ==
    << <<"from_email", "last", "parsed_email">>,
       <<"to", "combine", "parsed_emails">>,
       <<"cc", "combine", "parsed_emails">>,
       <<"bcc", "combine", "parsed_emails">>,
       <<"subject", "last", "None">>,
       <<"reply_to", "combine", "parsed_emails">>,
       <<"extra_headers", "combine", "None">>,
       <<"body", "last", "None">>,
       <<"alternatives", "combine", "None">>,
       <<"attachments", "combine", "prepped_attachments">> >>

anymail_message_attrs ==
    << <<"metadata", "combine", "None">>,
       <<"send_at", "last", "None">>,
       <<"tags", "combine", "None">>,
       <<"track_clicks", "last", "None">>,
       <<"track_opens", "last", "None">>,
       <<"esp_extra", "combine", "None">> >>

esp_message_attrs == <<>>

message_attrs == base_message_attrs \o anymail_message_attrs \o esp_message_attrs

AttrNames == {message_attrs[k][1] : k \in 1..Len(message_attrs)}

\* the setters that BasePayload leaves to unsupported_feature
UnsupportedSetters ==
    {"set_reply_to", "set_extra_headers", "set_metadata", "set_send_at",
     "set_tags", "set_track_clicks", "set_track_opens", "set_esp_extra"}

\* the setters that fan out to a singular hook, and the hook
RecipientSetters == {"set_to", "set_cc", "set_bcc"}

\* ------------------------------------------------------------------------
\* Messages and defaults: partial maps from attribute names to raw values
\* ------------------------------------------------------------------------

\* getattr(message, attr, UNSET)
getattr(message, attr) ==
    IF attr \in DOMAIN message.attrs THEN Val(message.attrs[attr]) ELSE UNSET

\* defaults.get(attr, UNSET)
defaults_get(defaults, attr) ==
    IF attr \in DOMAIN defaults THEN Val(defaults[attr]) ELSE UNSET

\* EmailMessage.recipients(): to + cc + bcc of the message itself
OwnList(message, attr) ==
    IF attr \in DOMAIN message.attrs THEN message.attrs[attr] ELSE <<>>

recipients(message) ==
    OwnList(message, "to") \o OwnList(message, "cc") \o OwnList(message, "bcc")

\* ------------------------------------------------------------------------
\* BasePayload: converters, setters and __init__
\* ------------------------------------------------------------------------

parsed_email(message, address) == ParsedEmail(address, message.encoding)

parsed_emails(message, addresses) ==
    [n \in 1..Len(addresses) |-> ParsedEmail(addresses[n], message.encoding)]

prepped_attachments(message, attachments) ==
    LET str_encoding == IF message.encoding # "None" THEN message.encoding
                        ELSE DEFAULT_CHARSET
    IN  [n \in 1..Len(attachments) |-> Attachment(attachments[n], str_encoding)]

\* line 297-300: converter = getattr(self, converter); value = converter(value)
Convert(converter, message, value) ==
    CASE converter = "parsed_email" -> parsed_email(message, value)
      [] converter = "parsed_emails" -> parsed_emails(message, value)
      [] converter = "prepped_attachments" -> prepped_attachments(message, value)

\* "combiner(value, default_value)": the arguments the other way round
Combine_Swapped(combiner, default_value, value) ==
    CASE combiner = "last" -> last(value, default_value)
      [] combiner = "combine" -> combine(value, default_value)

\* "value or default_value" for the last strategy
Combine_FalsyFallsBack(combiner, default_value, value) ==
    CASE combiner = "last" ->
            IF ~IsUnset(value) /\ value[1] \notin {"", "False"} THEN value
            ELSE IF ~IsUnset(default_value) THEN default_value
            ELSE value
      [] combiner = "combine" -> combine(default_value, value)

\* line 293-295: value = combiner(default_value, value)
Combine(combiner, default_value, value) ==
    CASE combiner = "last" -> last(default_value, value)
      [] combiner = "combine" -> combine(default_value, value)

\* the payload under construction: the setters __init__ dispatched to, each
\* with the value it received; the singular hooks of the concrete payload
\* that ran; and the exception that ended construction, if any
init_payload ==
    [setters |-> <<>>, hooks |-> <<>>, error |-> "None", feature |-> "None"]

\* raises whatever unsupported_feature_errors says
unsupported_feature_Always(p, errors, feature) ==
    [p EXCEPT !.error = "AnymailUnsupportedFeature", !.feature = feature]

\* unsupported_feature(feature)
unsupported_feature(p, errors, feature) ==
    IF errors
    THEN [p EXCEPT !.error = "AnymailUnsupportedFeature", !.feature = feature]
    ELSE p

\* set_recipients / set_alternatives / set_attachments: one singular hook
\* call per element, in list order
FanOut(hook, kind, values) == [n \in 1..Len(values) |-> <<hook, kind, values[n]>>]

\* set_<attr>(value), set_text_body(value), set_html_body(value)
CallSetter(p, errors, setter, attr, value) ==
    LET q == [p EXCEPT !.setters = Append(@, <<setter, value>>)]
    IN  IF setter \in UnsupportedSetters
          THEN unsupported_feature(q, errors, attr)
        ELSE IF setter \in RecipientSetters
          THEN [q EXCEPT !.hooks = @ \o FanOut("add_recipient", attr, value)]
        ELSE IF setter = "set_alternatives"
          THEN [q EXCEPT !.hooks = @ \o FanOut("add_alternative", attr, value)]
        ELSE IF setter = "set_attachments"
          THEN [q EXCEPT !.hooks = @ \o FanOut("add_attachment", attr, value)]
        ELSE [q EXCEPT !.hooks = Append(@, <<setter, attr, value>>)]

\* line 301-305: the setter of a table row
SetterName(message, attr) ==
    IF attr = "body"
    THEN (IF message.content_subtype = "html" THEN "set_html_body" ELSE "set_text_body")
    ELSE "set_" \o attr

\* line 296: if value is not UNSET
ShouldDispatch(value) == ~IsUnset(value)

\* "if value:" in place of "if value is not UNSET"
DispatchAttr_SkipFalsy(p, row, message, defaults, errors) ==
    LET attr == row[1]
        combiner == row[2]
        converter == row[3]
        raw == getattr(message, attr)
        value == IF combiner # "None"
                 THEN Combine(combiner, defaults_get(defaults, attr), raw)
                 ELSE raw
        truthy == /\ ~IsUnset(value)
                  /\ IF combiner = "combine" THEN Len(value[1]) > 0
                     ELSE value[1] \notin {"", "False"}
    IN  IF truthy
        THEN CallSetter(p, errors, SetterName(message, attr), attr,
                        IF converter # "None"
                        THEN Convert(converter, message, value[1])
                        ELSE value[1])
        ELSE p

\* line 292-306: one turn of the loop over message_attrs
DispatchAttr(p, row, message, defaults, errors) ==
    LET attr == row[1]
        combiner == row[2]
        converter == row[3]
        raw == getattr(message, attr)
        value == IF combiner # "None"
                 THEN Combine(combiner, defaults_get(defaults, attr), raw)
                 ELSE raw
    IN  IF ShouldDispatch(value)
        THEN CallSetter(p, errors, SetterName(message, attr), attr,
                        IF converter # "None"
                        THEN Convert(converter, message, value[1])
                        ELSE value[1])
        ELSE p

\* the table walked from its last row to its first
RECURSIVE InitLoop_Reversed(_, _, _, _, _)
InitLoop_Reversed(p, k, message, defaults, errors) ==
    IF k > Len(message_attrs) \/ p.error # "None" THEN p
    ELSE InitLoop_Reversed(DispatchAttr(p, message_attrs[Len(message_attrs) + 1 - k],
                                        message, defaults, errors),
                           k + 1, message, defaults, errors)

RECURSIVE InitLoop(_, _, _, _, _)
InitLoop(p, k, message, defaults, errors) ==
    IF k > Len(message_attrs) \/ p.error # "None" THEN p
    ELSE InitLoop(DispatchAttr(p, message_attrs[k], message, defaults, errors),
                  k + 1, message, defaults, errors)

\* BasePayload.__init__(message, defaults, backend)
BasePayload_init(message, defaults, errors) ==
    InitLoop(init_payload, 1, message, defaults, errors)


\* build_message_payload(message): the concrete backend returns its payload
\* class constructed from (message, self.send_defaults, self)
build_message_payload(message, defaults, errors) ==
    BasePayload_init(message, defaults, errors)

\* ------------------------------------------------------------------------
\* Exceptions, sessions, the ESP
\* ------------------------------------------------------------------------

\* the exceptions derived from AnymailError
AnymailErrors ==
    {"AnymailUnsupportedFeature", "AnymailRequestsAPIError",
     "AnymailRequestsAPIError: Invalid JSON", "AnymailRecipientsRefused"}

IsAnymailError(e) == e \in AnymailErrors

\* validate_response: Returns one of "sent", "queued", "refused", "error" or "multi"
StatusNames == <<"sent", "queued", "refused", "error", "multi">>

Statuses == {StatusNames[k] : k \in 1..Len(StatusNames)}

EspStatuses ==
    {StatusNames[k] : k \in 1..(IF NumStatuses < Len(StatusNames)
                                THEN NumStatuses ELSE Len(StatusNames))}

\* the raw responses session.request can return
Responses == [status_code : {200, 202, 500}, json : BOOLEAN]

NoResponse == [status_code |-> 0, json |-> FALSE]

\* self.session = None
NoSession == 0

\* requests.Session()
NewSession == 1

\* open without its "if self.session: return False"
open_Recreate(sess, silent, creation_ok) ==
    IF creation_ok
    THEN [session |-> NewSession, ret |-> "True", exc |-> "None"]
    ELSE IF ~silent
    THEN [session |-> sess, ret |-> "None", exc |-> "RequestException"]
    ELSE [session |-> sess, ret |-> "None", exc |-> "None"]

\* AnymailRequestsBackend.open(): the stored session afterwards, the value
\* returned and the exception raised
open(sess, silent, creation_ok) ==
    IF sess # NoSession
    THEN [session |-> sess, ret |-> "False", exc |-> "None"]
    ELSE IF creation_ok
    THEN [session |-> NewSession, ret |-> "True", exc |-> "None"]
    ELSE IF ~silent
    THEN [session |-> sess, ret |-> "None", exc |-> "RequestException"]
    ELSE [session |-> sess, ret |-> "None", exc |-> "None"]

\* close without its finally clause: a failed release leaves the session stored
close_KeepOnError(sess, silent, release_ok) ==
    IF sess = NoSession
    THEN [session |-> NoSession, released |-> FALSE, exc |-> "None"]
    ELSE [session |-> IF release_ok THEN NoSession ELSE sess, released |-> TRUE,
          exc |-> IF ~release_ok /\ ~silent THEN "RequestException" ELSE "None"]

\* AnymailRequestsBackend.close(): the stored session afterwards, whether the
\* session was released and the exception raised
close(sess, silent, release_ok) ==
    IF sess = NoSession
    THEN [session |-> NoSession, released |-> FALSE, exc |-> "None"]
    ELSE [session |-> NoSession, released |-> TRUE,
          exc |-> IF ~release_ok /\ ~silent THEN "RequestException" ELSE "None"]

\* the early return left out
IsEmpty_Never(batch) == FALSE

\* line 77: if not email_messages
IsEmpty(batch) == Len(batch) = 0

\* "if created_session is not None" in place of "if created_session"
ShouldClose_NotNone(created) == created # "None"

\* line 94: if created_session
ShouldClose(created) == created = "True"

\* a bare "except:" in place of "except AnymailError:"
Suppressed_Any(e, silent) == silent

\* "raise" whatever fail_silently says
Suppressed_Never(e, silent) == FALSE

\* "sent = False" whatever fail_silently says
Suppressed_Always(e, silent) == e \in AnymailErrors

\* line 86-90: except AnymailError: if self.fail_silently: sent = False
Suppressed(e, silent) == IsAnymailError(e) /\ silent

\* the recipients check left out
NoRecipients_Never(message) == FALSE

\* line 110: if not message.recipients()
NoRecipients(message) == Len(recipients(message)) = 0

\* "if response.status_code >= 400" in place of "!= 200"
StatusNotOk_From400(r) == r.status_code >= 400

\* line 239: if response.status_code != 200
StatusNotOk(r) == r.status_code # 200

\* ------------------------------------------------------------------------
\* State
\* ------------------------------------------------------------------------

VARIABLES
    fail_silently,               \* BaseEmailBackend.fail_silently
    unsupported_feature_errors,  \* line 23
    send_defaults,               \* line 32
    session,                     \* AnymailRequestsBackend.session
    msg_content,                 \* the caller's message objects: their fields
    anymail_status,              \* message.anymail_status of each object
    esp_response,                \* message.<esp>_response of each object
    pc,                          \* where send_messages is
    email_messages,              \* its argument: a list of message objects
    i,                           \* the for loop's position in the list
    created_session,             \* its local created_session
    num_sent,                    \* its local num_sent
    exc,                         \* the exception leaving the try block
    payload,                     \* the payload of the message being sent
    response,                    \* the raw response of the message being sent
    hist,                        \* per list position: how often each hook ran
    open_calls,                  \* self.open() calls made by send_messages
    close_calls,                 \* self.close() calls made by send_messages
    session_before,              \* the stored session when the call began
    result,                      \* what the call returned or raised
    calls,                       \* the caller's open() and close() calls since
                                 \* the last send_messages, with their outcomes
    true_opens                   \* open() calls that returned True since the
                                 \* last close()

config == <<fail_silently, unsupported_feature_errors, send_defaults, msg_content>>

vars == <<fail_silently, unsupported_feature_errors, send_defaults, session, msg_content, anymail_status, esp_response, pc,
          email_messages, i, created_session, num_sent, exc, payload,
          response, hist, open_calls, close_calls, session_before, result,
          calls, true_opens>>

Msgs == DOMAIN msg_content

\* every list of at most MaxMsgs of the caller's message objects
Batches == UNION {[1..n -> Msgs] : n \in 0..MaxMsgs}

\* for one list position: the calls of build_message_payload, the payloads it
\* returned, the calls of session.request, response.json and
\* validate_response, the statuses attached, and the exception that left _send
NoCalls ==
    [build |-> 0, payload |-> 0, request |-> 0, json |-> 0, validate |-> 0,
     status |-> 0, exc |-> "None"]

NoResult == [kind |-> "none", value |-> 0, exc |-> "None"]

Returned(n) == [kind |-> "returned", value |-> n, exc |-> "None"]

Raised(e) == [kind |-> "raised", value |-> 0, exc |-> e]

\* ------------------------------------------------------------------------
\* The caller's messages and the configured defaults
\* ------------------------------------------------------------------------

Message(attrs, subtype) ==
    [attrs |-> attrs, content_subtype |-> subtype, encoding |-> "None"]

\* a plain message to two recipients; a message with no recipient of its
\* own, an empty cc and an empty subject; an html message that also sets
\* fields whose setters BasePayload does not support
PoolContent ==
    [m1 |-> Message([from_email |-> "from@x", to |-> <<"a@x", "b@x">>,
                     subject |-> "Hi", body |-> "text"], "plain"),
     m2 |-> Message([from_email |-> "from@x", to |-> <<>>, cc |-> <<>>,
                     subject |-> "", body |-> "text"], "plain"),
     m3 |-> Message([from_email |-> "from@x", to |-> <<"c@x">>, bcc |-> <<>>,
                     subject |-> "", body |-> "<p>html</p>",
                     tags |-> <<"t2">>, track_opens |-> "False"], "html")]

\* SEND_DEFAULTS: none, or default recipients
PoolDefaults ==
    { <<>>, [to |-> <<"d@x">>, cc |-> <<>>] }

NoPayload == [init_payload EXCEPT !.error = "unbuilt"]

\* what an earlier send attempt, by any backend, left on the messages in
\* `before`
Earlier(objects, before, value) ==
    [m \in objects |-> IF m \in before THEN value ELSE "None"]

\* the state between two calls of send_messages
Idle ==
    /\ pc = "idle"
    /\ email_messages = <<>>
    /\ i = 1
    /\ created_session = "unset"
    /\ num_sent = 0
    /\ exc = "None"
    /\ payload = NoPayload
    /\ response = NoResponse
    /\ hist = <<>>
    /\ open_calls = 0
    /\ close_calls = 0
    /\ session_before = NoSession
    /\ result = NoResult

Init ==
    /\ fail_silently \in BOOLEAN
    /\ unsupported_feature_errors \in BOOLEAN
    /\ send_defaults \in PoolDefaults
    /\ session = NoSession
    /\ calls = <<>>
    /\ true_opens = 0
    /\ msg_content = PoolContent
    /\ \E before \in SUBSET (DOMAIN PoolContent) :
          /\ anymail_status = Earlier(DOMAIN PoolContent, before, "sent")
          /\ esp_response = Earlier(DOMAIN PoolContent, before, "parsed")
    /\ Idle

\* ------------------------------------------------------------------------
\* The caller: backend.open(), backend.close(), backend.send_messages(batch)
\* ------------------------------------------------------------------------

call_locals == <<pc, email_messages, i, created_session, num_sent, exc, payload,
                 response, hist, open_calls, close_calls, session_before, result>>

\* one open() or close() call as its caller saw it
Call(op, before, after, ret, released) ==
    [op |-> op, before |-> before, after |-> after, ret |-> ret,
     released |-> released]

\* what the caller of open() gets: its return value, or the exception
Outcome(o) == IF o.exc # "None" THEN o.exc ELSE o.ret

CallerOpen ==
    /\ pc = "idle"
    /\ Len(calls) < MaxCalls
    /\ \E creation_ok \in BOOLEAN :
          LET o == open(session, fail_silently, creation_ok)
          IN  /\ session' = o.session
              /\ calls' = Append(calls, Call("open", session, o.session,
                                             Outcome(o), FALSE))
              /\ true_opens' = IF Outcome(o) = "True" THEN true_opens + 1
                               ELSE true_opens
    /\ UNCHANGED <<config, anymail_status, esp_response, call_locals>>

CallerClose ==
    /\ pc = "idle"
    /\ Len(calls) < MaxCalls
    /\ \E release_ok \in BOOLEAN :
          LET c == close(session, fail_silently, release_ok)
          IN  /\ session' = c.session
              /\ calls' = Append(calls, Call("close", session, c.session,
                                             c.exc, c.released))
    /\ true_opens' = 0
    /\ UNCHANGED <<config, anymail_status, esp_response, call_locals>>

\* line 76-80: num_sent = 0; if not email_messages: return num_sent
SendMessages(batch) ==
    /\ pc = "idle"
    /\ email_messages' = batch
    /\ session_before' = session
    /\ hist' = [k \in 1..Len(batch) |-> NoCalls]
    /\ num_sent' = 0
    /\ IF IsEmpty(batch)
       THEN pc' = "done" /\ result' = Returned(0)
       ELSE pc' = "open" /\ result' = NoResult
    /\ calls' = <<>>
    /\ UNCHANGED true_opens
    /\ UNCHANGED <<config, session, anymail_status, esp_response,
                   i, created_session, exc, payload, response, open_calls,
                   close_calls>>

\* line 80: created_session = self.open()
DoOpen ==
    /\ pc = "open"
    /\ \E creation_ok \in BOOLEAN :
          LET o == open(session, fail_silently, creation_ok)
          IN  /\ session' = o.session
              /\ IF o.exc # "None"
                 THEN /\ pc' = "done"
                      /\ result' = Raised(o.exc)
                      /\ exc' = o.exc
                      /\ UNCHANGED created_session
                 ELSE /\ pc' = "loop"
                      /\ created_session' = o.ret
                      /\ UNCHANGED <<result, exc>>
              /\ true_opens' = IF Outcome(o) = "True" THEN true_opens + 1
                               ELSE true_opens
    /\ open_calls' = open_calls + 1
    /\ UNCHANGED calls
    /\ UNCHANGED <<config, anymail_status, esp_response, email_messages, i,
                   num_sent, payload, response, hist, close_calls,
                   session_before>>

\* a suppressed error also drops the message after the failed one
Raise_SkipNext(e) ==
    IF e \in AnymailErrors /\ fail_silently
    THEN /\ i' = i + 2
         /\ pc' = "loop"
         /\ exc' = exc
    ELSE /\ i' = i
         /\ pc' = "finally"
         /\ exc' = e

\* a failed post is sent again
Raise_RetryPost(e) ==
    IF e = "AnymailRequestsAPIError"
    THEN /\ i' = i
         /\ pc' = "post"
         /\ exc' = exc
    ELSE IF e \in AnymailErrors /\ fail_silently
    THEN /\ i' = i + 1
         /\ pc' = "loop"
         /\ exc' = exc
    ELSE /\ i' = i
         /\ pc' = "finally"
         /\ exc' = e

\* line 84-92: an exception e leaves self._send(message)
Raise(e) ==
    IF Suppressed(e, fail_silently)
    THEN /\ i' = i + 1
         /\ pc' = "loop"
         /\ exc' = exc
    ELSE /\ i' = i
         /\ pc' = "finally"
         /\ exc' = e

\* _send without its "message.anymail_status = None"
SendBegin_NoReset ==
    /\ UNCHANGED <<calls, true_opens>>
    /\ pc = "loop"
    /\ i <= Len(email_messages)
    /\ LET m == email_messages[i]
       IN  IF session = NoSession
           THEN /\ Raise("RuntimeError")
                /\ hist' = [hist EXCEPT ![i].exc = "RuntimeError"]
                /\ UNCHANGED <<anymail_status, esp_response, payload, response>>
           ELSE /\ hist' = hist
                /\ anymail_status' = anymail_status
                /\ esp_response' = [esp_response EXCEPT ![m] = "None"]
                /\ payload' = NoPayload
                /\ response' = NoResponse
                /\ exc' = exc
                /\ IF NoRecipients(msg_content[m])
                   THEN i' = i + 1 /\ pc' = "loop"
                   ELSE i' = i /\ pc' = "build"
    /\ UNCHANGED <<config, session, email_messages, created_session,
                   num_sent, open_calls, close_calls, session_before, result>>

\* line 83, 219-226, 107-111: the next message enters _send
SendBegin ==
    /\ UNCHANGED <<calls, true_opens>>
    /\ pc = "loop"
    /\ i <= Len(email_messages)
    /\ LET m == email_messages[i]
       IN  IF session = NoSession
           THEN /\ Raise("RuntimeError")
                /\ hist' = [hist EXCEPT ![i].exc = "RuntimeError"]
                /\ UNCHANGED <<anymail_status, esp_response, payload, response>>
           ELSE /\ hist' = hist
                /\ anymail_status' = [anymail_status EXCEPT ![m] = "None"]
                /\ esp_response' = [esp_response EXCEPT ![m] = "None"]
                /\ payload' = NoPayload
                /\ response' = NoResponse
                /\ exc' = exc
                /\ IF NoRecipients(msg_content[m])
                   THEN i' = i + 1 /\ pc' = "loop"
                   ELSE i' = i /\ pc' = "build"
    /\ UNCHANGED <<config, session, email_messages, created_session,
                   num_sent, open_calls, close_calls, session_before, result>>

\* line 113: payload = self.build_message_payload(message); line 136: a
\* backend that does not implement the hook raises NotImplementedError
Build ==
    /\ UNCHANGED <<calls, true_opens>>
    /\ pc = "build"
    /\ \/ /\ Raise("NotImplementedError")
          /\ hist' = [hist EXCEPT ![i].build = @ + 1,
                                  ![i].exc = "NotImplementedError"]
          /\ UNCHANGED payload
       \/ LET p == build_message_payload(msg_content[email_messages[i]],
                                         send_defaults, unsupported_feature_errors)
          IN  /\ payload' = p
              /\ IF p.error # "None"
                 THEN /\ Raise(p.error)
                      /\ hist' = [hist EXCEPT ![i].build = @ + 1, ![i].exc = p.error]
                 ELSE /\ pc' = "post"
                      /\ hist' = [hist EXCEPT ![i].build = @ + 1, ![i].payload = @ + 1]
                      /\ UNCHANGED <<i, exc>>
    /\ UNCHANGED <<config, session, anymail_status, esp_response,
                   email_messages, created_session, num_sent, response,
                   open_calls, close_calls, session_before, result>>

\* line 115, 228-241: response = self.post_to_esp(payload, message)
Post ==
    /\ UNCHANGED <<calls, true_opens>>
    /\ pc = "post"
    /\ \/ /\ Raise("RequestException")
          /\ hist' = [hist EXCEPT ![i].request = @ + 1, ![i].exc = "RequestException"]
          /\ UNCHANGED response
       \/ \E r \in Responses :
             /\ response' = r
             /\ IF StatusNotOk(r)
                THEN /\ Raise("AnymailRequestsAPIError")
                     /\ hist' = [hist EXCEPT ![i].request = @ + 1,
                                             ![i].exc = "AnymailRequestsAPIError"]
                ELSE /\ pc' = "deserialize"
                     /\ hist' = [hist EXCEPT ![i].request = @ + 1]
                     /\ UNCHANGED <<i, exc>>
    /\ UNCHANGED <<config, session, anymail_status, esp_response,
                   email_messages, created_session, num_sent, payload,
                   open_calls, close_calls, session_before, result>>

\* line 117-118, 243-252: parsed_response = self.deserialize_response(...)
Deserialize ==
    /\ UNCHANGED <<calls, true_opens>>
    /\ pc = "deserialize"
    /\ IF response.json
       THEN /\ esp_response' = [esp_response EXCEPT ![email_messages[i]] = "parsed"]
            /\ pc' = "validate"
            /\ hist' = [hist EXCEPT ![i].json = @ + 1]
            /\ UNCHANGED <<i, exc>>
       ELSE /\ Raise("AnymailRequestsAPIError: Invalid JSON")
            /\ hist' = [hist EXCEPT ![i].json = @ + 1,
                                    ![i].exc = "AnymailRequestsAPIError: Invalid JSON"]
            /\ UNCHANGED esp_response
    /\ UNCHANGED <<config, session, anymail_status,
                   email_messages, created_session, num_sent, payload, response,
                   open_calls, close_calls, session_before, result>>

\* line 119-122, 91-92: message.anymail_status = self.validate_response(...);
\* line 170: a backend that does not implement the hook raises
\* NotImplementedError
Validate ==
    /\ UNCHANGED <<calls, true_opens>>
    /\ pc = "validate"
    /\ \/ \E st \in EspStatuses :
             /\ anymail_status' = [anymail_status EXCEPT ![email_messages[i]] = st]
             /\ hist' = [hist EXCEPT ![i].validate = @ + 1, ![i].status = @ + 1]
             /\ num_sent' = num_sent + 1
             /\ i' = i + 1
             /\ pc' = "loop"
             /\ exc' = exc
       \/ \E e \in {"AnymailRecipientsRefused", "NotImplementedError"} :
             /\ Raise(e)
             /\ hist' = [hist EXCEPT ![i].validate = @ + 1, ![i].exc = e]
             /\ UNCHANGED <<anymail_status, num_sent>>
    /\ UNCHANGED <<config, session, esp_response, email_messages,
                   created_session, payload, response, open_calls, close_calls,
                   session_before, result>>

\* line 83: the list is exhausted
LoopEnd ==
    /\ UNCHANGED <<calls, true_opens>>
    /\ pc = "loop"
    /\ i > Len(email_messages)
    /\ pc' = "finally"
    /\ UNCHANGED <<config, session, anymail_status, esp_response,
                   email_messages, i, created_session, num_sent, exc, payload,
                   response, hist, open_calls, close_calls, session_before, result>>

\* line 93-97: finally: if created_session: self.close(); return num_sent
Finally ==
    /\ pc = "finally"
    /\ IF ShouldClose(created_session)
       THEN \E release_ok \in BOOLEAN :
               LET c == close(session, fail_silently, release_ok)
               IN  /\ session' = c.session
                   /\ exc' = IF c.exc # "None" THEN c.exc ELSE exc
                   /\ close_calls' = close_calls + 1
                   /\ true_opens' = 0
       ELSE UNCHANGED <<session, exc, close_calls, true_opens>>
    /\ UNCHANGED calls
    /\ pc' = "done"
    /\ result' = IF exc' = "None" THEN Returned(num_sent) ELSE Raised(exc')
    /\ UNCHANGED <<config, anymail_status, esp_response,
                   email_messages, i, created_session, num_sent, payload,
                   response, hist, open_calls, session_before>>

\* the caller has the result; the backend waits for its next call
Return ==
    /\ UNCHANGED <<calls, true_opens>>
    /\ pc = "done"
    /\ pc' = "idle"
    /\ email_messages' = <<>>
    /\ i' = 1
    /\ created_session' = "unset"
    /\ num_sent' = 0
    /\ exc' = "None"
    /\ payload' = NoPayload
    /\ response' = NoResponse
    /\ hist' = <<>>
    /\ open_calls' = 0
    /\ close_calls' = 0
    /\ session_before' = NoSession
    /\ result' = NoResult
    /\ UNCHANGED <<config, session, anymail_status, esp_response>>

Step ==
    \/ DoOpen
    \/ SendBegin
    \/ Build
    \/ Post
    \/ Deserialize
    \/ Validate
    \/ LoopEnd
    \/ Finally
    \/ Return

Next ==
    \/ CallerOpen
    \/ CallerClose
    \/ \E batch \in Batches : SendMessages(batch)
    \/ Step

Spec == Init /\ [][Next]_vars

\* ------------------------------------------------------------------------
\* Payload construction over a wide range of messages and defaults: one
\* message object, whose fields and the defaults vary in one attribute of
\* the table at a time
\* ------------------------------------------------------------------------

Combiner(attr) ==
    (CHOOSE k \in 1..Len(message_attrs) : message_attrs[k][1] = attr)

IsCombine(attr) == message_attrs[Combiner(attr)][2] = "combine"

\* an empty collection for a combine field, an empty string or False for a
\* last field
FalsyOf(attr) ==
    IF IsCombine(attr) THEN <<>>
    ELSE IF attr \in {"track_clicks", "track_opens"} THEN "False"
    ELSE ""

CallerValueOf(attr) ==
    IF attr = "alternatives" THEN << <<"c", "text/html">> >>
    ELSE IF IsCombine(attr) THEN <<"c">>
    ELSE "c"

DefaultValueOf(attr) ==
    IF attr = "alternatives" THEN << <<"a", "text/html">>, <<"b", "text/plain">> >>
    ELSE IF IsCombine(attr) THEN <<"a", "b">>
    ELSE "d"

Choices == {"unset", "falsy", "value"}

PlainAttrs ==
    [from_email |-> "from@x", to |-> <<"a@x", "b@x">>, subject |-> "Hi",
     body |-> "text"]

RichAttrs ==
    [from_email |-> "from@x", to |-> <<"a@x">>, cc |-> <<>>, bcc |-> <<"z@x">>,
     subject |-> "Hi", reply_to |-> <<"r@x">>, body |-> "<p>html</p>",
     attachments |-> <<"file.txt">>, tags |-> <<"t">>, track_opens |-> "False"]

With(f, attr, choice, v) ==
    IF choice = "unset"
    THEN [x \in DOMAIN f \ {attr} |-> f[x]]
    ELSE [x \in DOMAIN f \cup {attr} |-> IF x = attr THEN v ELSE f[x]]

FocusMessage(attr, choice, rich) ==
    Message(With(IF rich THEN RichAttrs ELSE PlainAttrs, attr, choice,
                 IF choice = "falsy" THEN FalsyOf(attr) ELSE CallerValueOf(attr)),
            IF rich THEN "html" ELSE "plain")

FocusDefaults(attr, choice) ==
    With(<<>>, attr, choice,
         IF choice = "falsy" THEN FalsyOf(attr) ELSE DefaultValueOf(attr))

PayloadInit ==
    /\ fail_silently \in BOOLEAN
    /\ unsupported_feature_errors \in BOOLEAN
    /\ \E attr \in AttrNames, c \in Choices, d \in Choices, rich \in BOOLEAN :
          /\ send_defaults = FocusDefaults(attr, d)
          /\ msg_content = [m \in {"m1"} |-> FocusMessage(attr, c, rich)]
    /\ session = NoSession
    /\ calls = <<>>
    /\ true_opens = 0
    /\ \E before \in SUBSET {"m1"} :
          /\ anymail_status = Earlier({"m1"}, before, "sent")
          /\ esp_response = Earlier({"m1"}, before, "parsed")
    /\ Idle

PayloadNext ==
    \/ \E m \in Msgs : SendMessages(<<m>>)
    \/ Step

PayloadSpec == PayloadInit /\ [][PayloadNext]_vars

\* ------------------------------------------------------------------------
\* Properties
\* ------------------------------------------------------------------------

Positions == 1..Len(email_messages)

\* send_messages has returned or raised
Done == pc = "done"

\* C1: in a send_messages call on a non-empty list, close is called exactly
\* once if the call's own open returned True and not at all otherwise, on
\* every exit path; a session that existed before the call is not closed and
\* is still the stored session afterwards; a session the call created is
\* cleared (session is None) afterwards.
C1_CloseIffOpenReturnedTrue ==
    /\ close_calls > 0 => created_session = "True"
    /\ close_calls <= 1
    /\ (Done /\ Len(email_messages) > 0) =>
          /\ result.kind \in {"returned", "raised"}
          /\ close_calls = (IF created_session = "True" THEN 1 ELSE 0)
          /\ session_before # NoSession =>
                (close_calls = 0 /\ session = session_before)
          /\ created_session = "True" => session = NoSession

\* a call that created its session ends with an exception after closing it
C1_Witness ==
    /\ Done
    /\ result.kind = "raised"
    /\ created_session = "True"
    /\ close_calls = 1
    /\ session = NoSession

\* C2 as stated, in the case it names: a call on a non-empty list that found a
\* session already stored invokes open exactly once and close exactly once.
C2_OpenOnceCloseOnce ==
    (Done /\ Len(email_messages) > 0 /\ session_before # NoSession) =>
        (open_calls = 1 /\ close_calls = 1)

\* C2 amended: every call on a non-empty list invokes open exactly once; it
\* invokes close exactly once when that open created the session, and not at
\* all when a session already existed before the call or open created none.
C2_OpenOnceClosePaired ==
    /\ open_calls <= 1
    /\ (Done /\ Len(email_messages) > 0) =>
          /\ open_calls = 1
          /\ session_before # NoSession => close_calls = 0
          /\ (session_before = NoSession /\ created_session = "True") =>
                close_calls = 1
          /\ created_session \in {"False", "None", "unset"} => close_calls = 0

\* a call that found a session already open has returned without closing it
C2_Witness ==
    /\ Done
    /\ Len(email_messages) > 0
    /\ session_before # NoSession
    /\ open_calls = 1
    /\ close_calls = 0
    /\ result.kind = "returned"

\* the message at list position k
MessageAt(k) == msg_content[email_messages[k]]

\* the message at position k has no recipient of its own
NoOwnRecipients(k) == Len(recipients(MessageAt(k))) = 0

\* _send has run for position k: its payload build was attempted, or it had
\* no recipient of its own
Processed(k) == hist[k].build = 1 \/ (NoOwnRecipients(k) /\ k < i)

\* the chain of position k (build, transmit, deserialize, validate) ran to
\* its end without an error
ChainCompleted(k) == hist[k].validate = 1 /\ hist[k].exc = "None"

\* the list position _send ran for last
LastPos == IF pc = "loop" THEN i - 1 ELSE i

\* C3: with fail_silently set, whatever messages have a chain that raises an
\* Anymail-domain error, send_messages does not raise, processes every
\* message of the list, and returns the number of messages whose chain
\* completed without error.
C3_FailSilentlyCounts ==
    (fail_silently /\ Done /\ Len(email_messages) > 0
       /\ \A k \in Positions : hist[k].exc \in AnymailErrors \cup {"None"}) =>
        /\ result.kind = "returned"
        /\ \A k \in Positions : Processed(k)
        /\ result.value = Cardinality({k \in Positions : ChainCompleted(k)})

\* the first of two messages failed with an Anymail-domain error, the second
\* was sent, and the call returned 1
C3_Witness ==
    /\ fail_silently
    /\ Done
    /\ Len(email_messages) = 2
    /\ hist[1].exc \in AnymailErrors
    /\ ChainCompleted(2)
    /\ result = Returned(1)

C4_State ==
    ~fail_silently =>
        \A k \in Positions :
            /\ k < i => hist[k].exc = "None"
            /\ hist[k].exc \in AnymailErrors =>
                  /\ pc \in {"finally", "done"}
                  /\ i = k
                  /\ \A j \in Positions : j > k => hist[j] = NoCalls
                  /\ pc = "finally" => exc = hist[k].exc
                  /\ Done =>
                        /\ result.kind = "raised"
                        /\ \/ result.exc = hist[k].exc
                           \/ result.exc = "RequestException" /\ close_calls = 1

C4_Step ==
    (~fail_silently /\ exc' # "None") =>
        /\ anymail_status' = anymail_status
        /\ esp_response' = esp_response
        /\ num_sent' = num_sent

\* C4: with fail_silently not set, the first Anymail-domain error raised in a
\* message's chain ends the loop at once and send_messages raises (that
\* error, unless closing the session in the finally clause raises in its
\* place): no payload is built and no request is made for any later message,
\* and no step from the raise to the end of the call changes a status.
C4_AbortOnFirstError == [](C4_State) /\ [][C4_Step]_vars

\* the first of two messages failed, the second, which has recipients, was
\* never touched, and a status attached before is still there
C4_Witness ==
    /\ ~fail_silently
    /\ Done
    /\ Len(email_messages) = 2
    /\ hist[1].exc \in AnymailErrors
    /\ result = Raised(hist[1].exc)
    /\ ~NoOwnRecipients(2)
    /\ hist[2] = NoCalls
    /\ email_messages[2] # email_messages[1]
    /\ anymail_status[email_messages[2]] = "sent"

\* C5: within one send_messages call no list position sees more than one
\* HTTP request: a position whose payload was built gets exactly one, a
\* position that was skipped or whose build raised gets none, and a non-200
\* response, an unparsable body or a validation error is not followed by a
\* second request.
C5_AtMostOneRequest ==
    \A k \in Positions :
        /\ hist[k].build <= 1
        /\ hist[k].payload <= hist[k].build
        /\ hist[k].request <= hist[k].payload
        /\ (hist[k].payload = 1 /\ ~(k = i /\ pc = "post")) => hist[k].request = 1
        /\ NoOwnRecipients(k) => hist[k].request = 0
        /\ hist[k].exc = "AnymailUnsupportedFeature" => hist[k].request = 0
        /\ hist[k].exc \in {"AnymailRequestsAPIError",
                            "AnymailRequestsAPIError: Invalid JSON",
                            "AnymailRecipientsRefused"} => hist[k].request = 1

\* a non-200 response for the first message was not retried and the second
\* message got its own single request
C5_Witness ==
    /\ Done
    /\ Len(email_messages) = 2
    /\ hist[1].exc = "AnymailRequestsAPIError"
    /\ hist[1].request = 1
    /\ hist[2].request = 1

\* C6: send_messages on an empty list returns 0 without any I/O: open and
\* close are not called, no request is made, and the stored session is the
\* one stored before.
C6_EmptyListNoIO ==
    Len(email_messages) = 0 =>
        /\ pc \in {"idle", "done"}
        /\ open_calls = 0
        /\ close_calls = 0
        /\ hist = <<>>
        /\ Done => (result = Returned(0) /\ session = session_before)

\* a call on the empty list has returned with no session stored
C6_Witness ==
    /\ Done
    /\ Len(email_messages) = 0
    /\ result = Returned(0)
    /\ session = NoSession

\* the value of a recipient field after the merge with the defaults
MergedList(message, defaults, attr) ==
    LET v == combine(defaults_get(defaults, attr), getattr(message, attr))
    IN  IF IsUnset(v) THEN <<>> ELSE v[1]

ResolvedRecipients(message, defaults) ==
    MergedList(message, defaults, "to") \o MergedList(message, defaults, "cc")
        \o MergedList(message, defaults, "bcc")

NoResolvedRecipients(k) ==
    Len(ResolvedRecipients(MessageAt(k), send_defaults)) = 0

\* C7: a message whose recipient set is empty after the merge is skipped: no
\* payload is built, no request is made, no status is attached (its
\* anymail_status is None once _send has run), it adds nothing to the count,
\* and it raises nothing (the one exception its position can see is the
\* RuntimeError of a _send that runs without a session, before the check).
C7_NoRecipientsSkipped ==
    /\ num_sent = Cardinality({k \in Positions : hist[k].status = 1})
    /\ \A k \in Positions : NoResolvedRecipients(k) =>
          /\ [hist[k] EXCEPT !.exc = "None"] = NoCalls
          /\ hist[k].exc \in {"None", "RuntimeError"}
          /\ hist[k].exc = "RuntimeError" => session = NoSession
          /\ (k < i /\ hist[k].exc = "None") =>
                anymail_status[email_messages[k]] = "None"
          /\ k = i => pc \notin {"build", "post", "deserialize", "validate"}

\* a message without recipients was skipped, the message after it was sent,
\* and the call returned 1
C7_Witness ==
    /\ Done
    /\ Len(email_messages) = 2
    /\ NoResolvedRecipients(1)
    /\ hist[1] = NoCalls
    /\ anymail_status[email_messages[1]] = "None"
    /\ hist[2].status = 1
    /\ result = Returned(1)

\* C8: validate_response runs only after a response with status 200 whose
\* body was deserialized: a response with another status raises the
\* transport error before response.json and validate_response run, an
\* unparsable body raises the invalid-response error before
\* validate_response runs, and in both cases the message has no status.
C8_ValidateAfterParsed200 ==
    /\ pc = "deserialize" => response.status_code = 200
    /\ pc = "validate" =>
          (response.status_code = 200 /\ response.json /\ hist[i].json = 1)
    /\ \A k \in Positions :
          /\ hist[k].status <= hist[k].validate
          /\ hist[k].validate <= hist[k].json
          /\ hist[k].json <= hist[k].request
          /\ hist[k].exc = "AnymailRequestsAPIError" =>
                (hist[k].json = 0 /\ hist[k].validate = 0 /\ hist[k].status = 0)
          /\ hist[k].exc = "AnymailRequestsAPIError: Invalid JSON" =>
                (hist[k].json = 1 /\ hist[k].validate = 0 /\ hist[k].status = 0)
    /\ (LastPos \in Positions /\ response # NoResponse /\ pc # "deserialize"
          /\ ~(response.status_code = 200 /\ response.json)) =>
          /\ hist[LastPos].exc = IF response.status_code # 200
                                 THEN "AnymailRequestsAPIError"
                                 ELSE "AnymailRequestsAPIError: Invalid JSON"
          /\ anymail_status[email_messages[LastPos]] = "None"

\* a 200 response with an unparsable body ended the call before
\* validate_response ran, and the message has no status
C8_Witness ==
    /\ Done
    /\ Len(email_messages) = 1
    /\ response.status_code = 200
    /\ ~response.json
    /\ hist[1].json = 1
    /\ hist[1].validate = 0
    /\ result = Raised("AnymailRequestsAPIError: Invalid JSON")
    /\ anymail_status[email_messages[1]] = "None"

\* the row of attr in message_attrs
RowOf(attr) == CHOOSE k \in 1..Len(message_attrs) : message_attrs[k][1] = attr

\* the message the payload was built for
Built == msg_content[email_messages[1]]

\* a payload was constructed, or its construction raised
WasBuilt == Len(email_messages) > 0 /\ payload.error # "unbuilt"

\* the caller's message or the defaults carry attr, be it empty
Present(attr) == attr \in DOMAIN Built.attrs \/ attr \in DOMAIN send_defaults

\* how many times the setter of attr was called during construction
Dispatches(attr) ==
    Cardinality({n \in 1..Len(payload.setters) :
                    payload.setters[n][1] = SetterName(Built, attr)})

\* the attributes whose setter BasePayload leaves unsupported
UnsupportedAttrs == {a \in AttrNames : ("set_" \o a) \in UnsupportedSetters}

UnsupportedSet == {a \in UnsupportedAttrs : Present(a)}

FirstUnsupportedSet ==
    CHOOSE a \in UnsupportedSet : \A b \in UnsupportedSet : RowOf(a) <= RowOf(b)

\* C9: when a field with an unsupported setter is set, payload construction
\* raises UnsupportedFeature for it if unsupported_feature_errors is true (no
\* payload results and no request is made); if it is false construction
\* succeeds, every field that is set is dispatched once, the unsupported
\* fields put nothing into the payload, and the request for the message is
\* made.
C9_UnsupportedFeature ==
    (WasBuilt /\ UnsupportedSet # {}) =>
        IF unsupported_feature_errors
        THEN /\ payload.error = "AnymailUnsupportedFeature"
             /\ payload.feature = FirstUnsupportedSet
             /\ hist[1].exc = "AnymailUnsupportedFeature"
             /\ hist[1].payload = 0
             /\ hist[1].request = 0
        ELSE /\ payload.error = "None"
             /\ \A a \in AttrNames : Present(a) => Dispatches(a) = 1
             /\ \A n \in 1..Len(payload.hooks) :
                    payload.hooks[n][2] \notin UnsupportedAttrs
             /\ pc \notin {"build", "post"} => hist[1].request = 1

\* a message with an unsupported field set was sent and got its status
C9_Witness ==
    /\ WasBuilt
    /\ Done
    /\ ~unsupported_feature_errors
    /\ UnsupportedSet # {}
    /\ payload.error = "None"
    /\ hist[1].status = 1
    /\ result = Returned(1)

\* construction got as far as the row of attr
Reached(attr) ==
    payload.error = "None" \/ RowOf(attr) <= RowOf(payload.feature)

\* attr is set and every side that carries it is an empty collection
EmptyCollection(attr) ==
    /\ message_attrs[RowOf(attr)][2] = "combine"
    /\ Present(attr)
    /\ attr \in DOMAIN Built.attrs => Len(Built.attrs[attr]) = 0
    /\ attr \in DOMAIN send_defaults => Len(send_defaults[attr]) = 0

\* attr is set and the value that counts for it is the empty string
EmptyString(attr) ==
    /\ message_attrs[RowOf(attr)][2] = "last"
    /\ Present(attr)
    /\ IF attr \in DOMAIN Built.attrs THEN Built.attrs[attr] = ""
       ELSE send_defaults[attr] = ""

\* the values the setter of attr received
Received(attr) ==
    {n \in 1..Len(payload.setters) : payload.setters[n][1] = SetterName(Built, attr)}

\* C10: in a constructed payload, a field that neither the message nor the
\* defaults carry has had its setter called 0 times; a field that is carried
\* but empty (empty collection, empty string), and that construction got to,
\* has had its setter called exactly once, with the empty value; no setter
\* is called twice.
C10_UnsetNeverEmptyOnce ==
    WasBuilt =>
        \A a \in AttrNames :
            /\ Dispatches(a) <= 1
            /\ ~Present(a) => Dispatches(a) = 0
            /\ (Present(a) /\ Reached(a)) => Dispatches(a) = 1
            /\ (EmptyCollection(a) /\ Reached(a)) =>
                  \A n \in Received(a) : Len(payload.setters[n][2]) = 0
            /\ (EmptyString(a) /\ Reached(a)) =>
                  \A n \in Received(a) :
                     IF a = "from_email" THEN payload.setters[n][2].address = ""
                     ELSE payload.setters[n][2] = ""

\* a payload was constructed for a message with an empty cc list: set_cc
\* was called once with the empty list, and set_metadata, which nothing
\* carries, was not called
C10_Witness ==
    /\ WasBuilt
    /\ payload.error = "None"
    /\ EmptyCollection("cc")
    /\ Dispatches("cc") = 1
    /\ ~Present("metadata")
    /\ Dispatches("metadata") = 0

\* the attributes of the table with the given combiner
AttrsWith(combiner) == {a \in AttrNames : message_attrs[RowOf(a)][2] = combiner}

\* what the converter of attr's row makes of v
Converted(attr, v) ==
    LET converter == message_attrs[RowOf(attr)][3]
    IN  IF converter # "None" THEN Convert(converter, Built, v) ELSE v

\* the default collection followed by the caller's, an absent side counting
\* as empty
DefaultThenCaller(attr) ==
    (IF attr \in DOMAIN send_defaults THEN send_defaults[attr] ELSE <<>>)
        \o (IF attr \in DOMAIN Built.attrs THEN Built.attrs[attr] ELSE <<>>)

\* C11: for every field with the combine strategy, the value its setter
\* receives is (the conversion of) the default collection followed by the
\* caller's collection; with one side absent it is the other side, and with
\* both absent the setter is not called.
C11_CombineDefaultThenCaller ==
    WasBuilt =>
        \A a \in AttrsWith("combine") :
            /\ ~Present(a) => Dispatches(a) = 0
            /\ (Present(a) /\ Reached(a)) =>
                  /\ Dispatches(a) = 1
                  /\ \A n \in Received(a) :
                        payload.setters[n][2] = Converted(a, DefaultThenCaller(a))

\* cc with default [a, b] and caller [c]: set_cc received a, b, c
C11_Witness ==
    /\ WasBuilt
    /\ "cc" \in DOMAIN send_defaults
    /\ "cc" \in DOMAIN Built.attrs
    /\ send_defaults["cc"] = <<"a", "b">>
    /\ Built.attrs["cc"] = <<"c">>
    /\ \E n \in Received("cc") :
          /\ Len(payload.setters[n][2]) = 3
          /\ payload.setters[n][2][1].address = "a"
          /\ payload.setters[n][2][2].address = "b"
          /\ payload.setters[n][2][3].address = "c"

\* the caller's value if the message carries attr, else the default
CallerElseDefault(attr) ==
    IF attr \in DOMAIN Built.attrs THEN Built.attrs[attr] ELSE send_defaults[attr]

\* C12: for every field with the last strategy, the value its setter
\* receives is (the conversion of) the caller's value whenever the message
\* carries the field, be it an empty string or False, and the default only
\* when the message does not carry it.
C12_LastCallerWins ==
    WasBuilt =>
        \A a \in AttrsWith("last") :
            /\ ~Present(a) => Dispatches(a) = 0
            /\ (Present(a) /\ Reached(a)) =>
                  /\ Dispatches(a) = 1
                  /\ \A n \in Received(a) :
                        payload.setters[n][2] = Converted(a, CallerElseDefault(a))

\* the caller's empty subject overrode the default subject
C12_Witness ==
    /\ WasBuilt
    /\ "subject" \in DOMAIN send_defaults
    /\ "subject" \in DOMAIN Built.attrs
    /\ send_defaults["subject"] = "d"
    /\ Built.attrs["subject"] = ""
    /\ \E n \in Received("subject") : payload.setters[n][2] = ""

\* C13: with fail_silently set, a send_messages call on a non-empty list in
\* which nothing fails but the creation of the session in open, its release
\* in close, or Anymail-domain errors in the chains of messages, returns a
\* count and raises nothing.
C13_FailSilentlyNeverRaises ==
    (fail_silently /\ Done /\ Len(email_messages) > 0
       /\ \A k \in Positions :
             hist[k].exc \notin {"RequestException", "NotImplementedError"}) =>
        /\ result.kind = "returned"
        /\ result.value = Cardinality({k \in Positions : hist[k].status = 1})

\* open swallowed the failed creation and returned None, and the first
\* _send raised RuntimeError out of send_messages
C13_Witness ==
    /\ fail_silently
    /\ Done
    /\ open_calls = 1
    /\ created_session = "None"
    /\ session = NoSession
    /\ hist[1].exc = "RuntimeError"
    /\ result = Raised("RuntimeError")

\* the exceptions of a programming defect: a hook the backend does not
\* implement, _send without a session
DefectErrors == {"NotImplementedError", "RuntimeError"}

\* C14: a NotImplementedError from a missing hook or the RuntimeError of a
\* _send without a session is not suppressed, whatever fail_silently says:
\* it ends the loop at that message, no later message is touched, the
\* session is closed and cleared if this call created it, and send_messages
\* raises (that error, unless close raises in its place).
C14_DefectsPropagate ==
    \A k \in Positions :
        hist[k].exc \in DefectErrors =>
            /\ pc \in {"finally", "done"}
            /\ i = k
            /\ \A j \in Positions : j > k => hist[j] = NoCalls
            /\ Done =>
                  /\ result.kind = "raised"
                  /\ \/ result.exc = hist[k].exc
                     \/ /\ result.exc = "RequestException"
                        /\ close_calls = 1
                        /\ ~fail_silently
                  /\ created_session = "True" =>
                        (close_calls = 1 /\ session = NoSession)

\* with fail_silently set, a missing hook ended a call on two messages at
\* the first: the second was not touched and the session the call created
\* was closed
C14_Witness ==
    /\ fail_silently
    /\ Done
    /\ Len(email_messages) = 2
    /\ hist[1].exc = "NotImplementedError"
    /\ hist[2] = NoCalls
    /\ ~NoOwnRecipients(2)
    /\ created_session = "True"
    /\ close_calls = 1
    /\ session = NoSession
    /\ result = Raised("NotImplementedError")

\* the caller's calls of the given operation
CallsOf(op) == {n \in 1..Len(calls) : calls[n].op = op}

\* one open() call, from the session stored before it, the session stored
\* after it and what it returned: a boolean (or, without fail_silently, the
\* exception of a failed creation), False and no change with a session
\* stored, True exactly when it stored a new one
OpenContract(before, after, ret) ==
    /\ ret \in {"True", "False", "RequestException"}
    /\ ret = "RequestException" => (~fail_silently /\ before = NoSession)
    /\ before # NoSession => (ret = "False" /\ after = before)
    /\ ret = "True" <=> (before = NoSession /\ after # NoSession)
    /\ ret # "True" => after = before

OpenOutcome(before, after, ret) ==
    IF ret = "None"
    THEN fail_silently /\ before = NoSession /\ after = NoSession
    ELSE OpenContract(before, after, ret)

NoOp(c) == c.before = NoSession /\ c.after = NoSession /\ ~c.released /\ c.ret = "None"

\* C16: every close() call leaves no session stored; without a stored
\* session it does nothing, with one it releases it, and a failed release
\* raises the transport error only if fail_silently is not set; the call
\* after a close() finds no session, so a close() is a no-op and an open()
\* goes on to create a session.
C16_CloseAlwaysClears ==
    /\ \A n \in CallsOf("close") :
          /\ calls[n].after = NoSession
          /\ calls[n].before = NoSession => NoOp(calls[n])
          /\ calls[n].before # NoSession => calls[n].released
          /\ calls[n].ret \in {"None", "RequestException"}
          /\ calls[n].ret = "RequestException" =>
                (~fail_silently /\ calls[n].released)
          /\ n < Len(calls) =>
                /\ calls[n + 1].op = "close" => NoOp(calls[n + 1])
                /\ calls[n + 1].op = "open" =>
                      /\ calls[n + 1].before = NoSession
                      /\ calls[n + 1].ret # "False"
                      /\ calls[n + 1].ret = "True" =>
                            calls[n + 1].after = NewSession
    /\ (pc = "idle" /\ Len(calls) > 0) => session = calls[Len(calls)].after
    /\ (Done /\ close_calls > 0) => session = NoSession

\* a close() whose release raised, then a close() that did nothing, then an
\* open() that created a session
C16_Witness ==
    /\ ~fail_silently
    /\ Len(calls) = 3
    /\ calls[1].op = "close"
    /\ calls[1].before = NewSession
    /\ calls[1].ret = "RequestException"
    /\ calls[1].after = NoSession
    /\ calls[2].op = "close"
    /\ NoOp(calls[2])
    /\ calls[3].op = "open"
    /\ calls[3].ret = "True"
    /\ session = NewSession

\* the table row a setter belongs to
RowOfSetter(setter) ==
    RowOf(CHOOSE a \in AttrNames : SetterName(Built, a) = setter)

\* the table row of the n-th setter call of the construction
CallRow(n) == RowOfSetter(payload.setters[n][1])

\* the rows of the recipient fields
RecipientRows == {RowOf("to"), RowOf("cc"), RowOf("bcc")}

\* C17: the setter calls of one payload construction follow the table order
\* (so each setter is called at most once, and set_from_email before any
\* recipient setter), they are the setters of the fields that are set, and
\* when a setter raises it is the last one called: no setter of a later row
\* runs.
C17_TableOrder ==
    WasBuilt =>
        /\ \A n, m \in 1..Len(payload.setters) : n < m => CallRow(n) < CallRow(m)
        /\ \A n, m \in 1..Len(payload.setters) :
              (CallRow(n) = RowOf("from_email") /\ CallRow(m) \in RecipientRows)
                 => n < m
        /\ \A n \in 1..Len(payload.setters) :
              Present(message_attrs[CallRow(n)][1])
        /\ payload.error = "None" =>
              \A a \in AttrNames : Present(a) => Dispatches(a) = 1
        /\ payload.error # "None" =>
              /\ Len(payload.setters) > 0
              /\ CallRow(Len(payload.setters)) = RowOf(payload.feature)
              /\ \A a \in AttrNames :
                    RowOf(a) > RowOf(payload.feature) => Dispatches(a) = 0
              /\ \A a \in AttrNames :
                    (Present(a) /\ RowOf(a) <= RowOf(payload.feature))
                       => Dispatches(a) = 1

\* set_reply_to raised after set_from_email, set_to, set_cc, set_bcc and
\* set_subject had run in that order, and set_attachments, whose field is
\* set, was not called
C17_Witness ==
    /\ WasBuilt
    /\ payload.error = "AnymailUnsupportedFeature"
    /\ payload.feature = "reply_to"
    /\ Len(payload.setters) = 6
    /\ payload.setters[1][1] = "set_from_email"
    /\ payload.setters[2][1] = "set_to"
    /\ payload.setters[3][1] = "set_cc"
    /\ payload.setters[4][1] = "set_bcc"
    /\ payload.setters[5][1] = "set_subject"
    /\ payload.setters[6][1] = "set_reply_to"
    /\ Present("attachments")
    /\ Dispatches("attachments") = 0

\* send_messages is inside its try block
InCall == pc \notin {"idle", "done"}

\* _send is over for position k: a status was attached, an exception left
\* it, or the message was skipped for want of recipients
Finished(k) ==
    \/ hist[k].status = 1
    \/ hist[k].exc # "None"
    \/ hist[k] = NoCalls /\ NoOwnRecipients(k)

C18_State ==
    \A k \in Positions :
        /\ k < i => Finished(k)
        /\ k > i => hist[k] = NoCalls
        /\ (k = i /\ pc \in {"build", "post", "deserialize", "validate"}) =>
              ~Finished(k)

C18_Step ==
    (InCall /\ pc' # "idle") =>
        /\ i' >= i
        /\ i' > i => (i' = i + 1 /\ pc' = "loop")
        /\ \A k \in Positions : hist'[k] # hist[k] => k = i
        /\ \A m \in Msgs : anymail_status'[m] # anymail_status[m] =>
              (i \in Positions /\ m = email_messages[i])

\* C18: within one send_messages call the list is worked through one
\* position at a time in list order: every earlier position is finished
\* before the current one starts, no later position has seen any step, each
\* step touches only the current position and its message, and the position
\* moves only forward, by one.
C18_Sequential == [](C18_State) /\ [][C18_Step]_vars

\* the second message's payload is built and about to be posted, after the
\* first message got its status
C18_Witness ==
    /\ Len(email_messages) = 2
    /\ pc = "post"
    /\ i = 2
    /\ hist[1].status = 1
    /\ hist[1].request = 1
    /\ hist[2].payload = 1
    /\ hist[2].request = 0

\* no message object occurs twice in the list
Distinct ==
    \A k, j \in Positions : k # j => email_messages[k] # email_messages[j]

\* the message at position k carries a normalized status
HasStatus(k) == anymail_status[email_messages[k]] \in Statuses

\* C19: when send_messages returns normally on a list of distinct messages,
\* the value returned is the number of messages of the list that carry a
\* normalized status, these are the messages whose chain completed, and
\* every other message of the list, skipped or failed, has anymail_status
\* None, whatever status it carried before the call.
C19_CountEqualsStatuses ==
    (Done /\ result.kind = "returned" /\ Len(email_messages) > 0 /\ Distinct) =>
        /\ result.value = Cardinality({k \in Positions : HasStatus(k)})
        /\ \A k \in Positions : HasStatus(k) <=> ChainCompleted(k)
        /\ \A k \in Positions :
              ~ChainCompleted(k) => anymail_status[email_messages[k]] = "None"

\* a call on a skipped message and a sent one returned 1: the skipped one
\* has no status, the sent one has
C19_Witness ==
    /\ Done
    /\ result = Returned(1)
    /\ Len(email_messages) = 2
    /\ Distinct
    /\ NoOwnRecipients(1)
    /\ hist[1] = NoCalls
    /\ anymail_status[email_messages[1]] = "None"
    /\ HasStatus(2)

\* C20: a message whose to, cc and bcc, merged with the defaults, hold at
\* least one recipient is not skipped: once _send has run for it without an
\* exception, its payload was built and its request was made.
C20_ResolvedRecipientsSent ==
    \A k \in Positions :
        (~NoResolvedRecipients(k) /\ k < i /\ hist[k].exc = "None") =>
            /\ hist[k].build = 1
            /\ hist[k].payload = 1
            /\ hist[k].request = 1

\* with default recipients configured, a call on one message without
\* recipients of its own opened a session and returned 0 without building a
\* payload
C20_Witness ==
    /\ Done
    /\ Len(email_messages) = 1
    /\ "to" \in DOMAIN send_defaults
    /\ Len(send_defaults["to"]) > 0
    /\ NoOwnRecipients(1)
    /\ ~NoResolvedRecipients(1)
    /\ created_session = "True"
    /\ hist[1] = NoCalls
    /\ result = Returned(0)

====
